---- MODULE Spec2Model ----
(***************************************************************************)
(* Model of capytaine.bem.solver.BEMSolver: single-problem resolution,      *)
(* batch resolution with per-problem failure isolation, the timing ledger   *)
(* and the field evaluation operations that need the stored sources.        *)
(*                                                                          *)
(* Python strings are sequences of one-character strings, so that          *)
(* str.lower() is a computation. An optional argument is a sequence of      *)
(* length at most one: None is << >>, a value v is << v >>.                 *)
(***************************************************************************)
EXTENDS Integers, Sequences, FiniteSets, TLC

VARIABLES
    method,      \* self.method, fixed by __init__
    engine,      \* behaviour of self.engine (the injected matrix engine)
    green_function, \* self.green_function
    joblib,      \* whether the optional dependency joblib can be imported
    environ,     \* os.environ.get("CAPYTAINE_PROGRESS_BAR"), as an option
    timer,       \* self.timer: the three accumulators
    pc,          \* "idle", or "parallel" while the groups of a solve_all run
    call,        \* operation and arguments of the current / last call
    outcome,     \* how the last call ended: "none", "returned" or the exception
    results,     \* list returned by the last solve / solve_all
    trace,       \* calls made to the collaborators during the last call
    pending,     \* parallel path: groups dispatched and not yet finished
    done,        \* parallel path: result list of each finished group
    nsolve,      \* history: number of calls of the wrapped self.solve so far
    value,       \* array returned by the last legacy field operation
    log          \* warnings emitted by the diagnostic checks of the last call

vars == << method, engine, green_function, joblib, environ, timer, pc, call, outcome,
           results, trace, pending, done, nsolve, value, log >>

(***************************************************************************)
(* Bounds of the model.                                                     *)
(***************************************************************************)
MaxBatch == 2      \* longest list of problems given to solve_all
MaxCalls == 2      \* calls of solve on one solver instance
MaxElapsed == 1    \* longest duration measured by one timing, in clock ticks
MaxFaces == 3      \* most faces of a mesh given to get_potential_on_mesh

(***************************************************************************)
(* Strings and options.                                                     *)
(***************************************************************************)
None == << >>
Some(v) == << v >>
IsNone(o) == Len(o) = 0
Value(o) == o[1]

S_direct == << "d", "i", "r", "e", "c", "t" >>
S_indirect == << "i", "n" >> \o S_direct
S_Direct == << "D", "i", "r", "e", "c", "t" >>
S_banana == << "b", "a", "n", "a", "n", "a" >>
S_true == << "t", "r", "u", "e" >>
S_True == << "T", "r", "u", "e" >>
S_false == << "f", "a", "l", "s", "e" >>
S_FALSE == << "F", "A", "L", "S", "E" >>
S_1 == << "1" >>
S_0 == << "0" >>
S_t == << "t" >>
S_T == << "T" >>
S_f == << "f" >>
S_empty == << >>

\* str.lower() on one character
LowerChar(c) ==
    CASE c = "A" -> "a" [] c = "D" -> "d" [] c = "E" -> "e" [] c = "F" -> "f"
      [] c = "L" -> "l" [] c = "R" -> "r" [] c = "S" -> "s" [] c = "T" -> "t"
      [] c = "U" -> "u" [] OTHER -> c

\* str.lower()
Lower(s) == [i \in 1..Len(s) |-> LowerChar(s[i])]

(***************************************************************************)
(* Problems. omega is 0 (zero frequency), 1..MaxOmega (finite) or OmegaInf. *)
(***************************************************************************)
MaxOmega == 2
OmegaInf == MaxOmega + 1

\* Lengths and periods are whole numbers: 2*pi is 6, and LengthInf is the
\* infinite length (the wavelength at zero frequency, the elevation of the
\* free surface of a problem that has none).
TwoPi == 6
LengthInf == TwoPi + 1

\* A body: whether it has a lid mesh, the smallest wavelength its mesh
\* resolves and the estimate of its first irregular frequency.
Body(lid, wavelength, frequency) ==
    [lid_mesh |-> lid, minimal_computable_wavelength |-> wavelength,
     first_irregular_frequency_estimate |-> frequency]

\* a body finely meshed, without lid, whose irregular frequencies are out of reach
FineBody == Body(FALSE, 0, OmegaInf)
\* a body coarsely meshed, without lid
Hull == Body(FALSE, LengthInf, 0)
\* the same with a lid, which raises the first irregular frequency
LidHull == Body(TRUE, TwoPi \div 2 + 1, 1)

\* the attributes a frequency can be given with
FreqTypes == { "omega", "period" }

Problem(om, diffr, enc, speed, grp) ==
    [omega |-> om, diffraction |-> diffr, encounter_omega |-> enc,
     forward_speed |-> speed, group |-> grp,
     body |-> FineBody, free_surface |-> 0, provided_freq_type |-> "omega"]

\* pb.period and pb.wavelength, from pb.omega
Period(omega) == TwoPi \div omega
Wavelength(omega) ==
    IF omega = 0 THEN LengthInf ELSE IF omega = OmegaInf THEN 0 ELSE TwoPi \div omega

\* The problems the batches are made of.
Problems ==
    { Problem(1, FALSE, 1, 0, 1),                 \* radiation, finite frequency
      Problem(0, TRUE, 0, 0, 1),                  \* diffraction at zero frequency
      Problem(OmegaInf, TRUE, OmegaInf, 0, 2),    \* diffraction at infinite frequency
      Problem(1, TRUE, 1, 1, 2) }                 \* diffraction with forward speed

\* The problems given to solve: those, and a diffraction problem with forward
\* speed at zero encounter frequency.
SingleProblems == Problems \cup { Problem(1, TRUE, 0, 1, 2) }

RECURSIVE SeqsUpTo(_, _)
SeqsUpTo(S, n) ==
    IF n = 0 THEN { << >> }
    ELSE LET shorter == SeqsUpTo(S, n - 1)
         IN  shorter \cup { Append(s, x) : s \in { t \in shorter : Len(t) = n - 1 }, x \in S }

Batches == SeqsUpTo(Problems, MaxBatch)

(***************************************************************************)
(* The timing ledger. tools.timer.Timer is a context manager that appends   *)
(* the elapsed time of each timing when the block is left, by return or by  *)
(* exception; nb_timings is the number of timings and total their sum.      *)
(***************************************************************************)
SolveTotal == "Solve total"
GreenFunction == "  Green function"
LinearSolver == "  Linear solver"
TimerNames == { SolveTotal, GreenFunction, LinearSolver }

Timer == [nb_timings |-> 0, total |-> 0]

\* n timings of d ticks each recorded by Timer.__exit__
TimerExit(t, n, d) == [nb_timings |-> t.nb_timings + n, total |-> t.total + n * d]

Elapsed == 0..MaxElapsed

(***************************************************************************)
(* Results.                                                                 *)
(***************************************************************************)
Null == "null"
Vec == "vector"

\* a mapping without keys (result.fs_elevation of a new result)
EmptyMap == << >>

\* problem.make_results_container(forces, sources, potential, pressure)
make_results_container(p, forces, sources, potential, pressure) ==
    [problem |-> p, failed |-> FALSE, exception |-> "",
     forces |-> forces, sources |-> sources, potential |-> potential,
     pressure |-> pressure, fs_elevation |-> EmptyMap]

\* problem.make_failed_results_container(e)
make_failed_results_container(p, e) ==
    [problem |-> p, failed |-> TRUE, exception |-> e,
     forces |-> "nan", sources |-> Null, potential |-> Null, pressure |-> Null,
     fs_elevation |-> EmptyMap]

DomainError == "ValueError: Diffraction problems at zero or infinite frequency are not defined"
ForwardSpeedError == "NotImplementedError: Direct solver is not able to solve problems with forward speed."
ShapeError == "ValueError: Error in linear solver: the shape of the output does not match the expected shape"
EngineError == "LinAlgError raised by engine.linear_solver"
SourcesError == "Exception: The values of the sources cannot been found."
EnvError == "ValueError: Invalid value for the environment variable CAPYTAINE_PROGRESS_BAR."
JoblibError == "ImportError: requires the missing optional dependency joblib."
FsForwardSpeedError == "NotImplementedError: For free surface elevation with forward speed, please use compute_free_surface_elevation."

\* what the injected engine's linear_solver does
EngineKinds == { "ok", "bad_shape", "raises" }

(***************************************************************************)
(* Calls to the collaborators, in the order they are made.                  *)
(***************************************************************************)
Ev(name, n) == [ev |-> name, n |-> n]

\* the two diagnostic checks over a list of n problems
Diagnostics(chk, n) ==
    IF chk THEN << Ev("_check_wavelength_and_mesh_resolution", n),
                   Ev("_check_wavelength_and_irregular_frequencies", n) >>
    ELSE << >>

MinOf(freqs) == CHOOSE x \in { freqs[i] : i \in 1..Len(freqs) } :
                    \A i \in 1..Len(freqs) : x <= freqs[i]
MaxOf(freqs) == CHOOSE x \in { freqs[i] : i \in 1..Len(freqs) } :
                    \A i \in 1..Len(freqs) : x >= freqs[i]

\* pb.__getattribute__(freq_type)
FreqAttribute(pb, freq_type) == IF freq_type = "omega" THEN pb.omega ELSE Period(pb.omega)

\* LOG.warning(...) of a check: the number of risky problems, the attribute
\* the frequencies are given with, the value (twice) or the range from the
\* least to the greatest, and the recommendation
Warning(check, nb, freq_type, from, to, recommendation) ==
    [check |-> check, nb_risky_problems |-> nb, freq_type |-> freq_type,
     from |-> from, to |-> to, recommendation |-> recommendation]

\* the warning of a check about the list of its risky problems, if any
Report(check, risky_problems, recommendation) ==
    IF Len(risky_problems) = 0 THEN << >>
    ELSE LET freq_type == risky_problems[1].provided_freq_type
             freqs == [i \in 1..Len(risky_problems) |->
                          FreqAttribute(risky_problems[i], freq_type)]
         IN  << Warning(check, Len(risky_problems), freq_type, MinOf(freqs), MaxOf(freqs),
                        recommendation) >>

\* 0.0 < pb.wavelength < pb.body.minimal_computable_wavelength
MeshRisky(pb) ==
    /\ 0 < Wavelength(pb.omega)
    /\ Wavelength(pb.omega) < pb.body.minimal_computable_wavelength

\* pb.free_surface != np.inf and first_irregular_frequency_estimate < pb.omega < np.inf
IrregularRisky(pb) ==
    /\ pb.free_surface # LengthInf
    /\ pb.body.first_irregular_frequency_estimate < pb.omega
    /\ pb.omega < OmegaInf

SetLid == "Setting a lid for the floating body is recommended."
MoveLid == "The lid might need to be closer to the free surface."

\* BEMSolver._check_wavelength_and_mesh_resolution(problems)
check_wavelength_and_mesh_resolution(problems) ==
    Report("mesh resolution", SelectSeq(problems, MeshRisky), "")

\* BEMSolver._check_wavelength_and_irregular_frequencies(problems)
check_wavelength_and_irregular_frequencies(problems) ==
    LET recommendation ==
            IF \E i \in 1..Len(problems) : ~problems[i].body.lid_mesh
            THEN SetLid ELSE MoveLid
    IN  Report("irregular frequencies", SelectSeq(problems, IrregularRisky), recommendation)

\* the warnings of the two checks over the list problems
Warnings(chk, problems) ==
    IF chk THEN check_wavelength_and_mesh_resolution(problems)
                \o check_wavelength_and_irregular_frequencies(problems)
    ELSE << >>

\* How a run of the body of solve ends: the exception raised (or None), the
\* result returned, the collaborator calls made and the number of timings
\* taken on the Green function and linear solver accumulators.
Raised(e, events, green, linear) ==
    [exc |-> Some(e), res |-> None, events |-> events, green |-> green, linear |-> linear]

Returned(r, events, green, linear) ==
    [exc |-> None, res |-> Some(r), events |-> events, green |-> green, linear |-> linear]

\* method = method if method is not None else self.method
SelectedMethod(m, self_method) == IF IsNone(m) THEN self_method ELSE Value(m)

\* if (method == 'direct'): ... else: ...
IsDirect(m) == m = S_direct

\* the test with {0.0} in place of {0.0, np.inf}
ZeroFrequencyOnly(p) == p.diffraction /\ p.encounter_omega = 0

\* float(problem.encounter_omega) in {0.0, np.inf}
UndefinedFrequency(p) == p.diffraction /\ p.encounter_omega \in { 0, OmegaInf }

\* the result built as if keep_details were always true
BuildDetailedResult(p, keep_details, sources) ==
    make_results_container(p, "forces", sources, Vec, Vec)

\* if not keep_details: make_results_container(forces) else: (forces, sources, potential, pressure)
BuildResult(p, keep_details, sources) ==
    IF ~keep_details
    THEN make_results_container(p, "forces", Null, Null, Null)
    ELSE make_results_container(p, "forces", sources, Vec, Vec)

\* the direct branch with the forward speed tested once the matrices are built
SolveDirectLate(self_engine, p, keep_details, checks) ==
    LET built == checks \o << Ev("build_matrices", 0) >>
        solved == built \o << Ev("linear_solver", 0) >>
    IN  IF p.forward_speed # 0 THEN Raised(ForwardSpeedError, built, 1, 0)
        ELSE IF self_engine = "raises" THEN Raised(EngineError, solved, 1, 1)
        ELSE IF self_engine = "bad_shape" THEN Raised(ShapeError, solved, 1, 1)
        ELSE Returned(BuildResult(p, keep_details, Null),
                      solved \o << Ev("integrate_pressure", 0) >>, 1, 1)

\* the direct branch of solve
SolveDirect(self_engine, p, keep_details, checks) ==
    LET built == checks \o << Ev("build_matrices", 0) >>
        solved == built \o << Ev("linear_solver", 0) >>
    IN  IF p.forward_speed # 0 THEN Raised(ForwardSpeedError, checks, 0, 0)
        ELSE IF self_engine = "raises" THEN Raised(EngineError, solved, 1, 1)
        ELSE IF self_engine = "bad_shape" THEN Raised(ShapeError, solved, 1, 1)
        ELSE Returned(BuildResult(p, keep_details, Null),
                      solved \o << Ev("integrate_pressure", 0) >>, 1, 1)

\* the indirect branch of solve
SolveIndirect(self_engine, p, keep_details, checks) ==
    LET built == checks \o << Ev("build_matrices", 1) >>
        solved == built \o << Ev("linear_solver", 1) >>
        grad == IF p.forward_speed # 0 THEN << Ev("green_function.evaluate", 0) >> ELSE << >>
    IN  IF self_engine = "raises" THEN Raised(EngineError, solved, 1, 1)
        ELSE IF self_engine = "bad_shape" THEN Raised(ShapeError, solved, 1, 1)
        ELSE Returned(BuildResult(p, keep_details, Vec),
                      solved \o grad \o << Ev("integrate_pressure", 0) >>,
                      1 + Len(grad), 1)

\* the body of BEMSolver.solve
solve(self_method, self_engine, p, m, keep_details, chk) ==
    LET checks == Diagnostics(chk, 1)
    IN  IF UndefinedFrequency(p) THEN Raised(DomainError, checks, 0, 0)
        ELSE IF IsDirect(SelectedMethod(m, self_method))
             THEN SolveDirect(self_engine, p, keep_details, checks)
             ELSE SolveIndirect(self_engine, p, keep_details, checks)

\* _solve_and_catch_errors with "except ValueError" in place of "except Exception"
solve_and_catch_value_errors(self_method, self_engine, p, m, keep_details) ==
    LET run == solve(self_method, self_engine, p, m, keep_details, FALSE)
    IN  IF IsNone(run.exc) \/ Value(run.exc) \notin { DomainError, ShapeError } THEN run
        ELSE [run EXCEPT !.exc = None,
                         !.res = Some(make_failed_results_container(p, Value(run.exc)))]

\* _solve_and_catch_errors calling solve without _check_wavelength=False
solve_and_catch_errors_checked(self_method, self_engine, p, m, keep_details) ==
    LET run == solve(self_method, self_engine, p, m, keep_details, TRUE)
    IN  IF IsNone(run.exc) THEN run
        ELSE [run EXCEPT !.exc = None,
                         !.res = Some(make_failed_results_container(p, Value(run.exc)))]

\* _solve_and_catch_errors: the result of solve, or a failed result
solve_and_catch_errors(self_method, self_engine, p, m, keep_details) ==
    LET run == solve(self_method, self_engine, p, m, keep_details, FALSE)
    IN  IF IsNone(run.exc) THEN run
        ELSE [run EXCEPT !.exc = None,
                         !.res = Some(make_failed_results_container(p, Value(run.exc)))]

(***************************************************************************)
(* Batch resolution.                                                        *)
(***************************************************************************)
\* the total order of the problems (LinearPotentialFlowProblem.__lt__)
ProblemLt(a, b) == a.omega < b.omega

\* x put before the first element of the sorted list s that x is smaller than
RECURSIVE Insert(_, _)
Insert(x, s) ==
    IF s = << >> THEN << x >>
    ELSE IF ProblemLt(x, Head(s)) THEN << x >> \o s
    ELSE << Head(s) >> \o Insert(x, Tail(s))

\* sorted(problems): a stable sort
RECURSIVE sorted(_)
sorted(problems) ==
    IF problems = << >> THEN << >>
    ELSE Insert(problems[Len(problems)], sorted(SubSeq(problems, 1, Len(problems) - 1)))

\* the sequential path without "problems = sorted(problems)"
InputOrder(problems) == problems

\* the problems given to the loop of the sequential path
SequentialOrder(problems) == sorted(problems)

\* the problems of the group k, in the order of the list
RECURSIVE ProblemsOfGroup(_, _)
ProblemsOfGroup(problems, k) ==
    IF problems = << >> THEN << >>
    ELSE (IF Head(problems).group = k THEN << Head(problems) >> ELSE << >>)
         \o ProblemsOfGroup(Tail(problems), k)

GroupKeys(problems) == { problems[i].group : i \in 1..Len(problems) }

\* the set S of integers as an increasing sequence
RECURSIVE Ascending(_)
Ascending(S) ==
    IF S = {} THEN << >>
    ELSE LET least == CHOOSE x \in S : \A y \in S : x <= y
         IN  << least >> \o Ascending(S \ { least })

\* LinearPotentialFlowProblem._group_for_parallel_resolution(problems)
group_for_parallel_resolution(problems) ==
    LET keys == Ascending(GroupKeys(problems))
    IN  [i \in 1..Len(keys) |-> ProblemsOfGroup(problems, keys[i])]

\* the environment variable read without .lower()
ProgressBarCaseSensitive(progress_bar, env) ==
    IF ~IsNone(progress_bar) THEN progress_bar
    ELSE IF ~IsNone(env)
         THEN IF Value(env) \in { S_true, S_1, S_t } THEN Some(TRUE)
              ELSE IF Value(env) \in { S_false, S_0, S_f } THEN Some(FALSE)
              ELSE None
         ELSE Some(TRUE)

\* progress_bar after lines 241-251: the value, or None when the call raises
ProgressBar(progress_bar, env) ==
    IF ~IsNone(progress_bar) THEN progress_bar
    ELSE IF ~IsNone(env)
         THEN LET env_var == Lower(Value(env))
              IN  IF env_var \in { S_true, S_1, S_t } THEN Some(TRUE)
                  ELSE IF env_var \in { S_false, S_0, S_f } THEN Some(FALSE)
                  ELSE None
         ELSE Some(TRUE)

\* track(problems, total=...) when the bar is shown
Track(shown, n) == IF shown THEN << Ev("track", n) >> ELSE << >>

\* The list comprehension of the sequential path over the list ps: the list of
\* results, the collaborator calls and the timings taken; an exception that
\* _solve_and_catch_errors lets through ends the comprehension.
RECURSIVE SolveEach(_, _, _, _, _)
SolveEach(self_method, self_engine, ps, m, keep_details) ==
    IF ps = << >>
    THEN [exc |-> None, res |-> << >>, events |-> << >>, solves |-> 0, green |-> 0, linear |-> 0]
    ELSE LET first == solve_and_catch_errors(self_method, self_engine, Head(ps), m, keep_details)
             rest == SolveEach(self_method, self_engine, Tail(ps), m, keep_details)
             called == << Ev("solve", 0) >> \o first.events
         IN  IF ~IsNone(first.exc)
             THEN [exc |-> first.exc, res |-> << >>, events |-> called,
                   solves |-> 1, green |-> first.green, linear |-> first.linear]
             ELSE [exc |-> rest.exc,
                   res |-> IF IsNone(rest.exc) THEN first.res \o rest.res ELSE << >>,
                   events |-> called \o rest.events,
                   solves |-> 1 + rest.solves,
                   green |-> first.green + rest.green,
                   linear |-> first.linear + rest.linear]

\* solve_all with the environment variable read after the problems are solved
solve_all_sequential_late(self_method, self_engine, env, problems, m, progress_bar, chk, keep_details) ==
    LET diag == Diagnostics(chk, Len(problems))
        bar == ProgressBar(progress_bar, env)
        ps == SequentialOrder(problems)
        run == SolveEach(self_method, self_engine, ps, m, keep_details)
    IN  [exc |-> IF IsNone(bar) THEN Some(EnvError) ELSE run.exc,
         res |-> IF IsNone(bar) THEN << >> ELSE run.res,
         events |-> diag \o run.events,
         solves |-> run.solves, green |-> run.green, linear |-> run.linear]

\* solve_all(problems, method=m, n_jobs=1, progress_bar=..., _check_wavelength=chk,
\* keep_details=...): the exception raised or the list returned, the
\* collaborator calls, the number of calls of self.solve and the timings taken
solve_all_sequential(self_method, self_engine, env, problems, m, progress_bar, chk, keep_details) ==
    LET diag == Diagnostics(chk, Len(problems))
        bar == ProgressBar(progress_bar, env)
        ps == SequentialOrder(problems)
        run == SolveEach(self_method, self_engine, ps, m, keep_details)
    IN  IF IsNone(bar)
        THEN [exc |-> Some(EnvError), res |-> << >>, events |-> diag,
              solves |-> 0, green |-> 0, linear |-> 0]
        ELSE [exc |-> run.exc, res |-> run.res,
              events |-> diag \o Track(Value(bar), Len(ps)) \o run.events,
              solves |-> run.solves, green |-> run.green, linear |-> run.linear]

\* only the list of the first group returned
FirstGroup(groups_of_results) ==
    IF groups_of_results = << >> THEN << >> ELSE Head(groups_of_results)

\* the lists of the groups put together from the last group to the first
RECURSIVE FlattenLastFirst(_)
FlattenLastFirst(groups_of_results) ==
    IF groups_of_results = << >> THEN << >>
    ELSE FlattenLastFirst(Tail(groups_of_results)) \o Head(groups_of_results)

\* results = [res for grp in groups_of_results for res in grp]
RECURSIVE Flatten(_)
Flatten(groups_of_results) ==
    IF groups_of_results = << >> THEN << >>
    ELSE Head(groups_of_results) \o Flatten(Tail(groups_of_results))

(***************************************************************************)
(* Field evaluation from the stored sources. A run is the exception raised  *)
(* (or None), the collaborator calls and the Green function timings taken.  *)
(***************************************************************************)
FieldRaised(e, events) == [exc |-> Some(e), events |-> events, green |-> 0]
FieldReturned(events, green) == [exc |-> None, events |-> events, green |-> green]

\* run a, then run b unless a raised
Then(a, b) ==
    IF ~IsNone(a.exc) THEN a
    ELSE [exc |-> b.exc, events |-> a.events \o b.events, green |-> a.green + b.green]

\* BEMSolver.compute_potential(points, result)
compute_potential(r) ==
    LET points == << Ev("_normalize_points", 0) >>
    IN  IF r.sources = Null THEN FieldRaised(SourcesError, points)
        ELSE FieldReturned(points \o << Ev("green_function.evaluate", 1) >>, 1)

\* _compute_potential_gradient without the test of result.sources
compute_potential_gradient_unchecked(r) ==
    FieldReturned(<< Ev("_normalize_points", 0), Ev("green_function.evaluate", 0) >>, 1)

\* BEMSolver._compute_potential_gradient(points, result)
compute_potential_gradient(r) ==
    LET points == << Ev("_normalize_points", 0) >>
    IN  IF r.sources = Null THEN FieldRaised(SourcesError, points)
        ELSE FieldReturned(points \o << Ev("green_function.evaluate", 0) >>, 1)

\* BEMSolver.compute_velocity(points, result)
compute_velocity(r) == compute_potential_gradient(r)

\* BEMSolver.compute_pressure(points, result)
compute_pressure(r) ==
    IF r.problem.forward_speed # 0
    THEN Then(compute_potential(r), compute_potential_gradient(r))
    ELSE compute_potential(r)

\* BEMSolver.compute_free_surface_elevation(points, result)
compute_free_surface_elevation(r) ==
    Then(FieldReturned(<< Ev("_normalize_free_surface_points", 0) >>, 0),
         IF r.problem.forward_speed # 0
         THEN Then(compute_potential(r), compute_potential_gradient(r))
         ELSE compute_potential(r))

Min(a, b) == IF a < b THEN a ELSE b

\* a run that returns the array v
WithValue(run, v) ==
    [exc |-> run.exc, events |-> run.events, green |-> run.green, value |-> v]

\* an entry of np.empty(...) that was never written
Unwritten == -1

\* np.empty((n,)): an array of n entries, none of them written
Empty(n) == [k \in 1..n |-> Unwritten]

\* list(range(i, j))
Range(i, j) == [k \in 1..(IF j > i THEN j - i ELSE 0) |-> i + k - 1]

\* S @ result.sources for the matrix S built on the faces listed: one entry
\* per row, the potential at that face (written as the index of the face)
Contract(faces) == [k \in 1..Len(faces) |-> faces[k]]

\* a[i:j] = vals on an array indexed from 0: the slice stops at the end of a
SliceAssign(a, i, j, vals) ==
    [k \in 1..Len(a) |->
        IF k - 1 >= i /\ k - 1 < j /\ k - i <= Len(vals) THEN vals[k - i] ELSE a[k]]

\* the loop with faces_to_extract = range(i, i+chunk_size), not cut at nb_faces
RECURSIVE ChunksUnclipped(_, _, _, _)
ChunksUnclipped(phi, i, nb_faces, chunk_size) ==
    IF i >= nb_faces THEN [phi |-> phi, events |-> << >>]
    ELSE LET faces_to_extract == Range(i, i + chunk_size)
             S == Contract(faces_to_extract)
             rest == ChunksUnclipped(SliceAssign(phi, i, i + chunk_size, S),
                                     i + chunk_size, nb_faces, chunk_size)
         IN  [phi |-> rest.phi,
              events |-> << Ev("extract_faces", i), Ev("build_S_matrix", Len(faces_to_extract)) >>
                         \o rest.events]

\* for i in range(i, nb_faces, chunk_size): the faces i .. min(i+chunk_size,
\* nb_faces)-1 are extracted, engine.build_S_matrix is called on them and
\* phi[i:i+chunk_size] is written; the array at the end and the calls made
RECURSIVE Chunks(_, _, _, _)
Chunks(phi, i, nb_faces, chunk_size) ==
    IF i >= nb_faces THEN [phi |-> phi, events |-> << >>]
    ELSE LET faces_to_extract == Range(i, Min(i + chunk_size, nb_faces))
             S == Contract(faces_to_extract)
             rest == Chunks(SliceAssign(phi, i, i + chunk_size, S),
                            i + chunk_size, nb_faces, chunk_size)
         IN  [phi |-> rest.phi,
              events |-> << Ev("extract_faces", i), Ev("build_S_matrix", Len(faces_to_extract)) >>
                         \o rest.events]

\* BEMSolver.get_potential_on_mesh(result, mesh, chunk_size)
get_potential_on_mesh(r, nb_faces, chunk_size) ==
    IF r.sources = Null THEN FieldRaised(SourcesError, << >>)
    ELSE IF chunk_size > nb_faces
         THEN WithValue(FieldReturned(<< Ev("build_S_matrix", nb_faces) >>, 0),
                        Contract(Range(0, nb_faces)))
         ELSE LET loop == Chunks(Empty(nb_faces), 0, nb_faces, chunk_size)
              IN  WithValue(FieldReturned(loop.events, 0), loop.phi)

\* get_potential_on_mesh(result, mesh, chunk_size=50)
DefaultChunkSize == 50

\* a meshed free surface
FreeSurface(id, nb_faces) == [id |-> id, nb_faces |-> nb_faces]

\* mapping[key] = v
Put(mapping, key, v) ==
    [k \in DOMAIN mapping \cup { key } |-> IF k = key THEN v ELSE mapping[k]]

\* 1j*result.omega/result.g * phi, entry by entry
Elevation(r, phi) == [k \in 1..Len(phi) |-> [omega |-> r.problem.omega, phi |-> phi[k]]]

\* How a run of get_free_surface_elevation ends: as a run of a field
\* operation, with the array returned and the result as the run leaves it.
ElevationRun(run, v, r) ==
    [exc |-> run.exc, events |-> run.events, green |-> run.green, value |-> v, result |-> r]

\* get_free_surface_elevation without the test of result.forward_speed
get_free_surface_elevation_unguarded(r, free_surface, keep_details) ==
    LET run == get_potential_on_mesh(r, free_surface.nb_faces, DefaultChunkSize)
    IN  IF ~IsNone(run.exc) THEN ElevationRun(run, << >>, r)
        ELSE LET fs_elevation == Elevation(r, run.value)
             IN  ElevationRun(run, fs_elevation,
                              IF keep_details
                              THEN [r EXCEPT !.fs_elevation = Put(@, free_surface, fs_elevation)]
                              ELSE r)

\* BEMSolver.get_free_surface_elevation(result, free_surface, keep_details)
get_free_surface_elevation(r, free_surface, keep_details) ==
    IF r.problem.forward_speed # 0
    THEN ElevationRun(FieldRaised(FsForwardSpeedError, << >>), << >>, r)
    ELSE LET run == get_potential_on_mesh(r, free_surface.nb_faces, DefaultChunkSize)
         IN  IF ~IsNone(run.exc) THEN ElevationRun(run, << >>, r)
             ELSE LET fs_elevation == Elevation(r, run.value)
                  IN  ElevationRun(run, fs_elevation,
                                   IF keep_details
                                   THEN [r EXCEPT !.fs_elevation = Put(@, free_surface, fs_elevation)]
                                   ELSE r)

FieldOps == { "compute_potential", "compute_velocity", "compute_pressure",
              "compute_free_surface_elevation", "get_potential_on_mesh" }

\* the run of the field operation op on the result r
FieldRun(op, r, nb_faces, chunk_size) ==
    CASE op = "compute_potential" -> compute_potential(r)
      [] op = "compute_velocity" -> compute_velocity(r)
      [] op = "compute_pressure" -> compute_pressure(r)
      [] op = "compute_free_surface_elevation" -> compute_free_surface_elevation(r)
      [] op = "get_potential_on_mesh" -> get_potential_on_mesh(r, nb_faces, chunk_size)

(***************************************************************************)
(* The solver and its callers.                                              *)
(***************************************************************************)
\* the number of calls of self.solve among the collaborator calls
CountSolves(events) == Cardinality({ i \in 1..Len(events) : events[i].ev = "solve" })

\* the ledger as if self.solve were not wrapped by the "Solve total" accumulator
LedgerUnwrapped(t, solves, green, linear, d) ==
    [t EXCEPT ![GreenFunction] = TimerExit(@, green, d),
              ![LinearSolver] = TimerExit(@, linear, d)]

\* the timings of one call added to self.timer; self.solve is the function
\* wrapped by the "Solve total" accumulator, so each of its calls is one timing
Ledger(t, solves, green, linear, d) ==
    [t EXCEPT ![SolveTotal] = TimerExit(@, solves, d),
              ![GreenFunction] = TimerExit(@, green, d),
              ![LinearSolver] = TimerExit(@, linear, d)]

Call(op, problems, m, keep_details, n_jobs, progress_bar, chk, target) ==
    [op |-> op, problems |-> problems, method |-> m, keep_details |-> keep_details,
     n_jobs |-> n_jobs, progress_bar |-> progress_bar, check |-> chk, target |-> target]

NoCall == Call("none", << >>, None, TRUE, 1, None, TRUE, 0)

\* a call of a field operation on the target-th result of the last resolution
FieldCall(op, target, nb_faces, chunk_size, keep_details) ==
    [op |-> op, problems |-> << >>, method |-> None, keep_details |-> keep_details,
     n_jobs |-> 1, progress_bar |-> None, check |-> TRUE, target |-> target,
     nb_faces |-> nb_faces, chunk_size |-> chunk_size]

\* nothing returned by a legacy field operation
NoValue == << >>

ConstructorMethods == { S_direct, S_indirect, S_Direct, S_banana }
MethodArgs == { None, Some(S_direct), Some(S_indirect), Some(S_Direct), Some(S_banana) }
NJobs == { 1, 2 }
ProgressBarArgs == { None, Some(TRUE), Some(FALSE) }
EnvValues ==
    { None } \cup { Some(v) : v \in { S_true, S_True, S_1, S_t, S_T, S_false, S_FALSE,
                                      S_0, S_f, S_banana, S_empty } }

\* the Green functions a solver can be given, and the default one
Delhommeau == "Delhommeau()"
GreenFunctionArgs == { None, Some("injected green function") }

\* BEMSolver(green_function=gf, engine=eng, method=m) returned: m.lower() must
\* be "direct" or "indirect"
Construct(gf, eng, m) ==
    /\ green_function = (IF IsNone(gf) THEN Delhommeau ELSE Value(gf))
    /\ engine = eng
    /\ Lower(m) \in { S_direct, S_indirect }
    /\ method = Lower(m)
    /\ call = Call("__init__", << >>, Some(m), TRUE, 1, None, TRUE, 0)
    /\ joblib \in BOOLEAN
    /\ environ = None
    /\ timer = [k \in TimerNames |-> Timer]
    /\ pc = "idle"
    /\ outcome = "none"
    /\ results = << >>
    /\ trace = << >>
    /\ pending = {}
    /\ done = << >>
    /\ nsolve = 0
    /\ value = NoValue
    /\ log = << >>

\* a solver built with the default Green function
Init == \E eng \in EngineKinds, m \in ConstructorMethods : Construct(None, eng, m)

\* solve keeping the method argument as the method of the solver
SolveOverriding(p, m, keep_details, chk, d) ==
    /\ pc = "idle"
    /\ nsolve < MaxCalls
    /\ LET run == solve(method, engine, p, m, keep_details, chk)
       IN  /\ timer' = Ledger(timer, 1, run.green, run.linear, d)
           /\ outcome' = IF IsNone(run.exc) THEN "returned" ELSE Value(run.exc)
           /\ results' = run.res
           /\ trace' = << Ev("solve", 0) >> \o run.events
    /\ nsolve' = nsolve + CountSolves(trace')
    /\ log' = Warnings(chk, << p >>)
    /\ call' = Call("solve", << p >>, m, keep_details, 1, None, chk, 0)
    /\ pc' = "returned"
    /\ method' = SelectedMethod(m, method)
    /\ UNCHANGED << engine, green_function, joblib, environ, pending, done, value >>

\* solver.solve(p, method=m, keep_details=..., _check_wavelength=chk) by a caller
Solve(p, m, keep_details, chk, d) ==
    /\ pc = "idle"
    /\ nsolve < MaxCalls
    /\ LET run == solve(method, engine, p, m, keep_details, chk)
       IN  /\ timer' = Ledger(timer, 1, run.green, run.linear, d)
           /\ outcome' = IF IsNone(run.exc) THEN "returned" ELSE Value(run.exc)
           /\ results' = run.res
           /\ trace' = << Ev("solve", 0) >> \o run.events
    /\ nsolve' = nsolve + CountSolves(trace')
    /\ log' = Warnings(chk, << p >>)
    /\ call' = Call("solve", << p >>, m, keep_details, 1, None, chk, 0)
    /\ pc' = "returned"
    /\ UNCHANGED << method, engine, green_function, joblib, environ, pending, done, value >>

\* solver.solve_all(problems, method=m, n_jobs=..., progress_bar=..., ...) by a
\* caller: the whole call in the sequential path, up to the dispatch of the
\* groups in the parallel path
SolveAll(problems, m, n_jobs, progress_bar, chk, keep_details, d) ==
    /\ pc = "idle"
    /\ nsolve + Len(problems) <= MaxCalls
    /\ call' = Call("solve_all", problems, m, keep_details, n_jobs, progress_bar, chk, 0)
    /\ log' = Warnings(chk, problems)
    /\ LET diag == Diagnostics(chk, Len(problems))
           bar == ProgressBar(progress_bar, environ)
           seq == solve_all_sequential(method, engine, environ, problems, m,
                                       progress_bar, chk, keep_details)
           groups == group_for_parallel_resolution(problems)
       IN  IF IsNone(bar) \/ n_jobs = 1
           THEN /\ timer' = Ledger(timer, seq.solves, seq.green, seq.linear, d)
                /\ nsolve' = nsolve + CountSolves(seq.events)
                /\ outcome' = IF IsNone(seq.exc) THEN "returned" ELSE Value(seq.exc)
                /\ results' = seq.res
                /\ trace' = seq.events
                /\ pc' = "returned"
                /\ UNCHANGED << pending, done >>
           ELSE IF ~joblib
           THEN /\ outcome' = JoblibError
                /\ results' = << >>
                /\ trace' = diag
                /\ pc' = "returned"
                /\ UNCHANGED << timer, nsolve, pending, done >>
           ELSE /\ pending' = 1..Len(groups)
                /\ done' = [g \in 1..Len(groups) |-> << >>]
                /\ outcome' = "none"
                /\ results' = << >>
                /\ trace' = diag \o << Ev("_group_for_parallel_resolution", Len(problems)) >>
                                 \o Track(Value(bar), Len(groups))
                /\ pc' = "parallel"
                /\ UNCHANGED << timer, nsolve >>
    /\ UNCHANGED << method, engine, green_function, joblib, environ, value >>

\* A worker finishes the group g: self.solve_all(grp, method=method, n_jobs=1,
\* progress_bar=False, _check_wavelength=False, **kwargs) on its copy of the
\* solver, whose ledger is not the caller's.
WorkerDone(g) ==
    /\ pc = "parallel"
    /\ g \in pending
    /\ LET grp == group_for_parallel_resolution(call.problems)[g]
           run == solve_all_sequential(method, engine, environ, grp, call.method,
                                       Some(FALSE), FALSE, call.keep_details)
       IN  /\ done' = [done EXCEPT ![g] = run.res]
           /\ trace' = trace \o << Ev("worker", g) >> \o run.events
    /\ pending' = pending \ { g }
    /\ UNCHANGED << method, engine, green_function, joblib, environ, timer, pc, call, outcome,
                    results, nsolve, value, log >>

\* every group is finished: the lists of the groups are flattened and returned
SolveAllCollect ==
    /\ pc = "parallel"
    /\ pending = {}
    /\ results' = Flatten(done)
    /\ outcome' = "returned"
    /\ pc' = "returned"
    /\ UNCHANGED << method, engine, green_function, joblib, environ, timer, call, trace,
                    pending, done, nsolve, value, log >>

\* The caller lets go of what the last call returned: between two calls the
\* solver keeps its configuration and its ledger, nothing else.
Release ==
    /\ pc = "returned"
    /\ pc' = "idle"
    /\ call' = NoCall
    /\ outcome' = "none"
    /\ results' = << >>
    /\ trace' = << >>
    /\ pending' = {}
    /\ done' = << >>
    /\ value' = NoValue
    /\ log' = << >>
    /\ UNCHANGED << method, engine, green_function, joblib, environ, timer, nsolve >>

\* os.environ["CAPYTAINE_PROGRESS_BAR"] is set or unset between two calls
SetEnv(v) ==
    /\ pc = "idle"
    /\ v # environ
    /\ environ' = v
    /\ UNCHANGED << method, engine, green_function, joblib, timer, pc, call, outcome, results,
                    trace, pending, done, nsolve, value, log >>

\* One of the field operations called on the i-th result of the last solve or
\* solve_all, with a mesh of nb_faces faces where the operation takes a mesh.
Field(op, i, nb_faces, chunk_size, d) ==
    /\ pc = "returned"
    /\ call.op \in { "solve", "solve_all" }
    /\ i \in 1..Len(results)
    /\ ~results[i].failed
    /\ LET run == FieldRun(op, results[i], nb_faces, chunk_size)
       IN  /\ timer[GreenFunction].nb_timings + run.green <= 2 * MaxCalls
           /\ timer' = Ledger(timer, 0, run.green, 0, d)
           /\ outcome' = IF IsNone(run.exc) THEN "returned" ELSE Value(run.exc)
           /\ trace' = run.events
           /\ value' = IF "value" \in DOMAIN run THEN run.value ELSE NoValue
    /\ call' = FieldCall(op, i, nb_faces, chunk_size, TRUE)
    /\ UNCHANGED << method, engine, green_function, joblib, environ, pc, results, pending, done, nsolve, log >>

\* solver.get_free_surface_elevation(results[i], free_surface, keep_details)
\* on a result of the last solve or solve_all, possibly after other calls of
\* get_free_surface_elevation on the results of that resolution
GetFreeSurfaceElevation(i, free_surface, keep_details, d) ==
    /\ pc = "returned"
    /\ call.op \in { "solve", "solve_all", "get_free_surface_elevation" }
    /\ i \in 1..Len(results)
    /\ ~results[i].failed
    /\ LET run == get_free_surface_elevation(results[i], free_surface, keep_details)
       IN  /\ timer' = Ledger(timer, 0, run.green, 0, d)
           /\ outcome' = IF IsNone(run.exc) THEN "returned" ELSE Value(run.exc)
           /\ trace' = run.events
           /\ value' = run.value
           /\ results' = [results EXCEPT ![i] = run.result]
    /\ call' = FieldCall("get_free_surface_elevation", i, free_surface.nb_faces,
                         DefaultChunkSize, keep_details)
    /\ UNCHANGED << method, engine, green_function, joblib, environ, pc, pending, done, nsolve, log >>

(***************************************************************************)
(* Spec: single and batch resolution, sequential and parallel.              *)
(***************************************************************************)
CallSolve ==
    \E p \in SingleProblems, m \in MethodArgs, keep_details \in BOOLEAN, chk \in BOOLEAN :
        Solve(p, m, keep_details, chk, MaxElapsed)

CallSolveAll ==
    \E problems \in Batches, m \in MethodArgs, n_jobs \in NJobs,
       chk \in BOOLEAN, keep_details \in BOOLEAN :
        SolveAll(problems, m, n_jobs, None, chk, keep_details, MaxElapsed)

Worker == \E g \in pending : WorkerDone(g)

Next == CallSolve \/ CallSolveAll \/ Worker \/ SolveAllCollect \/ Release

Spec == Init /\ [][Next]_vars

(***************************************************************************)
(* SpecEnv: batch resolution under every setting of the progress bar.       *)
(***************************************************************************)
EnvBatches ==
    SeqsUpTo({ Problem(1, FALSE, 1, 0, 1), Problem(0, TRUE, 0, 0, 2) }, MaxBatch)

ChangeEnv == \E v \in EnvValues : SetEnv(v)

CallSolveAllEnv ==
    \E problems \in EnvBatches, n_jobs \in NJobs, progress_bar \in ProgressBarArgs :
        SolveAll(problems, None, n_jobs, progress_bar, TRUE, TRUE, MaxElapsed)

NextEnv == ChangeEnv \/ CallSolveAllEnv \/ Worker \/ SolveAllCollect \/ Release

SpecEnv == Init /\ [][NextEnv]_vars

(***************************************************************************)
(* SpecField: a problem is solved and a field is evaluated from the result. *)
(***************************************************************************)
CallSolveQuiet ==
    \E p \in SingleProblems, m \in MethodArgs, keep_details \in BOOLEAN :
        Solve(p, m, keep_details, FALSE, MaxElapsed)

CallField ==
    \E op \in FieldOps, i \in 1..MaxBatch, nb_faces \in 0..MaxFaces,
       chunk_size \in 1..(MaxFaces + 1) :
        /\ (op # "get_potential_on_mesh" => nb_faces = 0 /\ chunk_size = 1)
        /\ Field(op, i, nb_faces, chunk_size, MaxElapsed)

FreeSurfaces == { FreeSurface(1, 1), FreeSurface(2, MaxFaces) }

CallGetFreeSurfaceElevation ==
    \E i \in 1..MaxBatch, free_surface \in FreeSurfaces, keep_details \in BOOLEAN :
        GetFreeSurfaceElevation(i, free_surface, keep_details, MaxElapsed)

NextField == CallSolveQuiet \/ CallField \/ CallGetFreeSurfaceElevation \/ Release

SpecField == Init /\ [][NextField]_vars

(***************************************************************************)
(* SpecLedger: the timing ledger over the lifetime of a solver, each call   *)
(* measuring any duration the clock can give.                               *)
(***************************************************************************)
LedgerBatches ==
    SeqsUpTo({ Problem(1, FALSE, 1, 0, 1), Problem(0, TRUE, 0, 0, 1),
               Problem(1, TRUE, 1, 1, 2) }, MaxBatch)

CallSolveTimed ==
    \E p \in SingleProblems, m \in { None, Some(S_direct) }, d \in Elapsed :
        Solve(p, m, TRUE, FALSE, d)

CallSolveAllTimed ==
    \E problems \in LedgerBatches, n_jobs \in NJobs, d \in Elapsed :
        SolveAll(problems, None, n_jobs, Some(FALSE), FALSE, TRUE, d)

CallFieldTimed ==
    \E op \in { "compute_potential", "compute_pressure" }, i \in 1..MaxBatch, d \in Elapsed :
        Field(op, i, 0, 1, d)

NextLedger ==
    CallSolveTimed \/ CallSolveAllTimed \/ Worker \/ SolveAllCollect
        \/ CallFieldTimed \/ Release

SpecLedger == Init /\ [][NextLedger]_vars

(***************************************************************************)
(* SpecCheck: the diagnostic checks over problems of coarse and fine bodies, *)
(* with and without lid, whose frequencies were given as omega or as period. *)
(***************************************************************************)
\* a radiation problem of the body, at the frequency omega given as freq_type
CheckedProblem(om, body, freq_type, free_surface) ==
    [Problem(om, FALSE, om, 0, 1) EXCEPT !.body = body,
                                         !.provided_freq_type = freq_type,
                                         !.free_surface = free_surface]

CheckedProblems ==
    { CheckedProblem(om, body, freq_type, 0) :
          om \in 1..MaxOmega, body \in { Hull, LidHull }, freq_type \in FreqTypes }
    \cup { CheckedProblem(1, FineBody, "omega", 0), CheckedProblem(MaxOmega, Hull, "omega", LengthInf) }

CheckedBatches == SeqsUpTo(CheckedProblems, MaxBatch)

CallSolveChecked ==
    \E p \in CheckedProblems, chk \in BOOLEAN : Solve(p, None, FALSE, chk, MaxElapsed)

CallSolveAllChecked ==
    \E problems \in CheckedBatches, chk \in BOOLEAN :
        SolveAll(problems, None, 1, Some(FALSE), chk, FALSE, MaxElapsed)

NextCheck == CallSolveChecked \/ CallSolveAllChecked \/ Release

SpecCheck == Init /\ [][NextCheck]_vars

(***************************************************************************)
(* SpecConfig: solvers built with any Green function, engine and method,    *)
(* then called with and without a method argument.                          *)
(***************************************************************************)
InitConfig ==
    \E gf \in GreenFunctionArgs, eng \in EngineKinds, m \in ConstructorMethods :
        Construct(gf, eng, m)

ConfigProblems == { Problem(1, FALSE, 1, 0, 1), Problem(1, TRUE, 1, 1, 2) }

CallSolveConfig ==
    \E p \in ConfigProblems, m \in MethodArgs : Solve(p, m, TRUE, FALSE, MaxElapsed)

CallSolveAllConfig ==
    \E problems \in SeqsUpTo(ConfigProblems, MaxBatch), m \in MethodArgs, n_jobs \in NJobs :
        SolveAll(problems, m, n_jobs, Some(FALSE), FALSE, TRUE, MaxElapsed)

NextConfig == CallSolveConfig \/ CallSolveAllConfig \/ Worker \/ SolveAllCollect \/ Release

SpecConfig == InitConfig /\ [][NextConfig]_vars

(***************************************************************************)
(* Properties.                                                              *)
(***************************************************************************)
SolveReturnedOrRaised == pc = "returned" /\ call.op = "solve"
SolveAllReturned == pc = "returned" /\ call.op = "solve_all" /\ outcome = "returned"

\* the number of entries of the list s that are about the problem p
Occurrences(s, p) == Cardinality({ i \in 1..Len(s) : s[i] = p })
ResultProblems == [i \in 1..Len(results) |-> results[i].problem]

\* the exceptions raised by the resolution of one problem
ProblemErrors == { DomainError, ForwardSpeedError, ShapeError, EngineError }

\* the problem p cannot be solved by this solver with the arguments of the call
FailsToSolve(p) ==
    \/ engine # "ok" 
    \/ p.diffraction /\ p.encounter_omega \in { 0, OmegaInf }
    \/ /\ p.forward_speed # 0
       /\ (IF call.method = None THEN method ELSE call.method[1]) = S_direct

\* the exception the resolution of p raises, for a problem that FailsToSolve
FailureOf(p) ==
    IF p.diffraction /\ p.encounter_omega \in { 0, OmegaInf } THEN DomainError
    ELSE IF p.forward_speed # 0 /\ (IF call.method = None THEN method ELSE call.method[1]) = S_direct
    THEN ForwardSpeedError
    ELSE IF engine = "raises" THEN EngineError ELSE ShapeError

\* C1: in solve_all no exception raised by the resolution of a problem escapes:
\* the call ends by returning (or by a setup error), each problem whose
\* resolution raises has a failed result carrying the exception raised, and
\* each of the other problems of the batch has a result of its own.
C1_FailureIsolation ==
    (pc = "returned" /\ call.op = "solve_all") =>
        /\ outcome \notin ProblemErrors
        /\ outcome = "returned" =>
              /\ \A i \in 1..Len(call.problems) :
                    \E j \in 1..Len(results) : results[j].problem = call.problems[i]
              /\ \A j \in 1..Len(results) :
                    IF FailsToSolve(results[j].problem)
                    THEN /\ results[j].failed
                         /\ results[j].exception = FailureOf(results[j].problem)
                    ELSE /\ ~results[j].failed
                         /\ results[j].forces = "forces"

\* C1 witness: a batch returned with a failed result and a solved problem
C1_Witness ==
    /\ SolveAllReturned
    /\ \E i, j \in 1..Len(results) :
          /\ results[i].failed /\ results[i].exception = DomainError
          /\ ~results[j].failed

\* C2: a solve_all that returns gives one entry per submitted problem, each
\* either a result or a failed result: the list has the length of the input,
\* each problem has as many entries as it was submitted, and solve_all([]) is [].
C2_OneEntryPerProblem ==
    SolveAllReturned =>
        /\ Len(results) = Len(call.problems)
        /\ \A p \in Problems : Occurrences(ResultProblems, p) = Occurrences(call.problems, p)
        /\ \A j \in 1..Len(results) :
              /\ results[j].failed \in BOOLEAN
              /\ results[j].failed <=> results[j].exception # ""
              /\ results[j].failed <=> results[j].forces = "nan"
        /\ call.problems = << >> => results = << >>

\* C2 witness: a batch of two problems of two groups returned by the parallel path
C2_Witness ==
    /\ SolveAllReturned
    /\ call.n_jobs # 1
    /\ Len(results) = MaxBatch
    /\ \E i, j \in 1..Len(results) : results[i].failed /\ ~results[j].failed

\* C3 as stated: in the sequential path the i-th entry returned is the result
\* of the i-th problem submitted.
C3_InputOrder ==
    (SolveAllReturned /\ call.n_jobs = 1) =>
        \A i \in 1..Len(results) : results[i].problem = call.problems[i]

NonDecreasing(ps) == \A i, j \in 1..Len(ps) : i < j => ~(ps[j].omega < ps[i].omega)

\* C3 amended: in the sequential path the entries are returned in the order
\* of the problems (non-decreasing, problems that compare equal in their input
\* order), so the i-th entry is the result of the i-th problem submitted
\* whenever the list submitted is in that order already.
C3_SortedOrder ==
    (SolveAllReturned /\ call.n_jobs = 1) =>
        /\ NonDecreasing(ResultProblems)
        /\ \A p \in Problems : Occurrences(ResultProblems, p) = Occurrences(call.problems, p)
        /\ NonDecreasing(call.problems) => ResultProblems = call.problems

\* C3 witness: a list submitted out of order, returned in order
C3_Witness ==
    /\ SolveAllReturned
    /\ call.n_jobs = 1
    /\ Len(results) = 2
    /\ call.problems[2].omega < call.problems[1].omega
    /\ results[1].problem = call.problems[2]
    /\ results[2].failed /\ ~results[1].failed

\* the calls of the Green function evaluator and of the engine, and the solves
Computations ==
    { "build_matrices", "linear_solver", "green_function.evaluate", "build_S_matrix",
      "integrate_pressure" }

Computes(events) == \E i \in 1..Len(events) : events[i].ev \in Computations

\* a call of solve on a diffraction problem at zero or infinite encounter
\* frequency raises the domain error and leaves the Green function and linear
\* solver accumulators as they were
C4_Step ==
    (/\ pc = "idle" /\ pc' = "returned" /\ call'.op = "solve"
     /\ call'.problems[1].diffraction
     /\ call'.problems[1].encounter_omega \in { 0, OmegaInf }) =>
        /\ outcome' = DomainError
        /\ results' = << >>
        /\ ~Computes(trace')
        /\ timer'[GreenFunction] = timer[GreenFunction]
        /\ timer'[LinearSolver] = timer[LinearSolver]

\* through solve_all each such problem is one failed result with the domain error
C4_Batch ==
    SolveAllReturned =>
        \A j \in 1..Len(results) :
            (/\ results[j].problem.diffraction
             /\ results[j].problem.encounter_omega \in { 0, OmegaInf }) =>
                /\ results[j].failed
                /\ results[j].exception = DomainError
                /\ Occurrences(ResultProblems, results[j].problem)
                      = Occurrences(call.problems, results[j].problem)

\* C4: solve on a diffraction problem whose encounter frequency is zero or
\* infinite always raises the domain error, whatever the method and the
\* forward speed, before any matrix is built or system solved (the Green
\* function and linear solver accumulators are untouched); called directly
\* the error propagates, through solve_all it becomes one failed result.
C4_UndefinedFrequency == []C4_Batch /\ [][C4_Step]_vars

\* C4 witness: a direct call raised the domain error although the direct
\* method was asked for a problem with forward speed
C4_Witness ==
    /\ SolveReturnedOrRaised
    /\ outcome = DomainError
    /\ call.problems[1].forward_speed # 0
    /\ call.method = Some(S_direct)

\* C5 as stated: a method argument that is neither "direct" nor "indirect" is
\* rejected: the call does not return a list of results or a result.
C5_MethodRejected ==
    (/\ pc = "returned" /\ call.op \in { "solve", "solve_all" }
     /\ call.problems # << >>
     /\ call.method # None
     /\ call.method[1] \notin { S_direct, S_indirect }) =>
        outcome # "returned"

\* the indirect formulation was used: the matrices were built with the
\* adjoint double layer
UsedIndirect == \E i \in 1..Len(trace) : trace[i] = Ev("build_matrices", 1)
UsedDirect == \E i \in 1..Len(trace) : trace[i] = Ev("build_matrices", 0)

\* C7: the result returned by solve has sources exactly when the indirect
\* formulation was used with keep_details true: without keep_details only the
\* forces are kept, and with the direct method sources is null with the
\* details kept; the method is the argument if given, the solver's otherwise.
C7_SourcesKept ==
    (SolveReturnedOrRaised /\ outcome = "returned") =>
        LET r == results[1]
            selected == IF call.method = None THEN method ELSE call.method[1]
        IN  /\ r.sources # Null <=> (UsedIndirect /\ call.keep_details)
            /\ selected = S_indirect => UsedIndirect /\ ~UsedDirect
            /\ selected = S_direct => UsedDirect /\ ~UsedIndirect /\ r.sources = Null
            /\ ~call.keep_details =>
                  /\ r.sources = Null /\ r.potential = Null /\ r.pressure = Null
                  /\ r.forces = "forces"
            /\ call.keep_details => r.potential # Null /\ r.pressure # Null

\* C7 witness: the override "indirect" on a solver built with "direct" keeps the sources
C7_Witness ==
    /\ SolveReturnedOrRaised
    /\ outcome = "returned"
    /\ method = S_direct
    /\ call.method = Some(S_indirect)
    /\ call.keep_details
    /\ results[1].sources # Null

\* C6: each of the field operations raises the data-availability error when
\* the result it is given has no sources, and then neither the Green function
\* evaluator nor the engine is called, nothing is solved again and the ledger
\* and the result are as they were; with sources it does not raise that error.
C6_State ==
    (pc = "returned" /\ call.op \in FieldOps) =>
        IF results[call.target].sources = Null
        THEN /\ outcome = SourcesError
             /\ ~Computes(trace)
             /\ \A i \in 1..Len(trace) : trace[i].ev # "solve"
        ELSE /\ outcome = "returned"
             /\ Computes(trace)

C6_Step ==
    (/\ call'.op \in FieldOps /\ call.op \notin FieldOps
     /\ results[call'.target].sources = Null) =>
        /\ timer' = timer
        /\ nsolve' = nsolve
        /\ results' = results

C6_SourcesRequired == []C6_State /\ [][C6_Step]_vars

\* C6 witness: compute_velocity raised on a result of the direct method whose
\* details were kept
C6_Witness ==
    /\ pc = "returned"
    /\ call.op = "compute_velocity"
    /\ outcome = SourcesError
    /\ results[call.target].potential # Null

\* the values of the environment variable that mean true and false
TrueValues == { S_true, S_True, S_1, S_t, S_T }
FalseValues == { S_false, S_FALSE, S_0, S_f }

\* the progress bar was shown
Tracked == \E i \in 1..Len(trace) : trace[i].ev = "track"

\* C8: in solve_all the progress_bar argument wins and the environment
\* variable is then not consulted (no error for an unrecognized value);
\* without the argument the variable decides, case-insensitively, and any
\* other value is an error; without the variable the bar is shown.
C8_ProgressBar ==
    (pc \in { "returned", "parallel" } /\ call.op = "solve_all"
     /\ (joblib \/ call.n_jobs = 1)) =>
        IF call.progress_bar # None
        THEN /\ outcome # EnvError
             /\ Tracked <=> call.progress_bar[1]
        ELSE IF environ = None THEN outcome # EnvError /\ Tracked
        ELSE IF environ[1] \in TrueValues THEN outcome # EnvError /\ Tracked
        ELSE IF environ[1] \in FalseValues THEN outcome # EnvError /\ ~Tracked
        ELSE outcome = EnvError /\ ~Tracked

\* C8 witness: the argument False with an unrecognized value of the variable
C8_Witness ==
    /\ pc = "returned" /\ call.op = "solve_all"
    /\ call.progress_bar = Some(FALSE)
    /\ environ = Some(S_banana)
    /\ outcome = "returned"
    /\ Len(results) > 0

\* solve_all ended by a setup error
SetupError == call.op = "solve_all" /\ outcome \in { EnvError, JoblibError }

C9_Step ==
    (pc = "idle" /\ SetupError') =>
        /\ pc' = "returned"
        /\ timer' = timer
        /\ nsolve' = nsolve
        /\ results' = << >>
        /\ ~Computes(trace')
        /\ \A i \in 1..Len(trace') : trace'[i].ev \notin { "solve", "worker" }

C9_State ==
    (pc \in { "returned", "parallel" } /\ call.op = "solve_all") =>
        LET badenv == /\ call.progress_bar = None
                      /\ environ # None
                      /\ environ[1] \notin TrueValues \cup FalseValues
        IN  /\ badenv => outcome = EnvError
            /\ (~badenv /\ call.n_jobs # 1 /\ ~joblib) => outcome = JoblibError
            /\ (~badenv /\ (call.n_jobs = 1 \/ joblib)) => ~SetupError

\* C9: solve_all raises a setup error exactly for an unrecognized value of the
\* environment variable (read when no progress_bar argument is given) and for
\* n_jobs != 1 without joblib (no fallback to the sequential path), and it
\* raises before any problem is solved: no call of solve, no result, and the
\* ledger as it was.
C9_SetupErrors == []C9_State /\ [][C9_Step]_vars

\* C9 witness: a batch of problems not solved because of the variable
C9_Witness ==
    /\ pc = "returned" /\ SetupError
    /\ outcome = EnvError
    /\ environ = Some(S_banana)
    /\ Len(call.problems) > 0
    /\ nsolve > 0

C10_Step ==
    \A k \in TimerNames :
        /\ timer'[k].nb_timings >= timer[k].nb_timings
        /\ timer'[k].total >= timer[k].total

\* C10: the number of timings of "Solve total" is the number of calls of solve
\* made on the solver, by the caller or by a sequential solve_all, raising or
\* not, and no accumulator of the ledger ever decreases.
C10_Ledger == [](timer[SolveTotal].nb_timings = nsolve) /\ [][C10_Step]_vars

\* C10 witness: every call the bound allows was made, the last one raising
C10_Witness ==
    /\ pc = "returned"
    /\ nsolve = MaxCalls
    /\ timer[SolveTotal].nb_timings = MaxCalls
    /\ outcome \in ProblemErrors
    /\ timer[SolveTotal].total > 0

\* C11 as stated: solve with the direct method on a problem with forward speed
\* always raises the not-implemented error.
C11_AlwaysNotImplemented ==
    (/\ pc = "returned" /\ call.op = "solve"
     /\ (IF call.method = None THEN method ELSE call.method[1]) = S_direct
     /\ call.problems[1].forward_speed # 0) =>
        outcome = ForwardSpeedError

C11_State ==
    (pc = "returned" /\ call.op = "solve") =>
        LET p == call.problems[1]
            direct == (IF call.method = None THEN method ELSE call.method[1]) = S_direct
            undefined == p.diffraction /\ p.encounter_omega \in { 0, OmegaInf }
        IN  /\ (direct /\ p.forward_speed # 0) =>
                  /\ outcome = (IF undefined THEN DomainError ELSE ForwardSpeedError)
                  /\ results = << >>
                  /\ ~Computes(trace)
            /\ outcome = ForwardSpeedError => direct /\ p.forward_speed # 0

C11_Step ==
    (/\ pc = "idle" /\ pc' = "returned" /\ call'.op = "solve"
     /\ (IF call'.method = None THEN method ELSE call'.method[1]) = S_direct
     /\ call'.problems[1].forward_speed # 0) =>
        /\ timer'[GreenFunction] = timer[GreenFunction]
        /\ timer'[LinearSolver] = timer[LinearSolver]

\* C11 amended: solve with the direct method (the solver's or the argument's)
\* on a problem with forward speed always raises, before any matrix is built
\* or system solved: the not-implemented error, unless the problem is a
\* diffraction problem at zero or infinite encounter frequency, whose domain
\* error is raised first; and the not-implemented error is raised in no other
\* case, so never with zero forward speed.
C11_DirectForwardSpeed == []C11_State /\ [][C11_Step]_vars

\* C11 witness: the override "direct" on a solver built with "indirect" raised
\* the not-implemented error for a problem with forward speed
C11_Witness ==
    /\ pc = "returned" /\ call.op = "solve"
    /\ method = S_indirect
    /\ call.method = Some(S_direct)
    /\ call.problems[1].forward_speed # 0
    /\ outcome = ForwardSpeedError

RECURSIVE SumRows(_)
SumRows(events) == IF events = << >> THEN 0 ELSE Head(events).n + SumRows(Tail(events))

\* C12: on a result with sources, for every mesh and every chunk_size >= 1,
\* get_potential_on_mesh returns the array of the unchunked evaluation, the
\* potential of each face at the index of the face and no entry unwritten;
\* each call of the engine receives at most chunk_size rows, the k-th chunk
\* starts at the face after the last face of the chunk before it (the faces
\* are taken once each, in order, up to the last) and the loop makes at most
\* one call per face.
C12_ChunkedEqualsUnchunked ==
    (/\ pc = "returned" /\ call.op = "get_potential_on_mesh"
     /\ results[call.target].sources # Null) =>
        LET n == call.nb_faces
            built == SelectSeq(trace, LAMBDA e : e.ev = "build_S_matrix")
            extracted == SelectSeq(trace, LAMBDA e : e.ev = "extract_faces")
        IN  /\ outcome = "returned"
            /\ Len(value) = n
            /\ \A f \in 0..(n - 1) : value[f + 1] = f
            /\ \A k \in 1..Len(built) : built[k].n <= call.chunk_size
            /\ SumRows(built) = n
            /\ Len(built) <= (IF n = 0 THEN 1 ELSE n)
            /\ call.chunk_size > n => Len(built) = 1 /\ extracted = << >>
            /\ call.chunk_size <= n =>
                  /\ Len(extracted) = Len(built)
                  /\ \A k \in 1..Len(built) :
                        /\ extracted[k].n = SumRows(SubSeq(built, 1, k - 1))
                        /\ built[k].n >= 1

\* C12 witness: a mesh of three faces evaluated in chunks of two, the last
\* chunk being the shorter one
C12_Witness ==
    /\ pc = "returned" /\ call.op = "get_potential_on_mesh"
    /\ outcome = "returned"
    /\ call.nb_faces = 3 /\ call.chunk_size = 2
    /\ value = << 0, 1, 2 >>
    /\ trace = << Ev("extract_faces", 0), Ev("build_S_matrix", 2),
                  Ev("extract_faces", 2), Ev("build_S_matrix", 1) >>

C13_State ==
    (pc = "returned" /\ call.op = "get_free_surface_elevation") =>
        IF results[call.target].problem.forward_speed # 0
        THEN /\ outcome = FsForwardSpeedError
             /\ trace = << >>
             /\ value = << >>
        ELSE outcome # FsForwardSpeedError

C13_Step ==
    (/\ pc = "returned" /\ pc' = "returned"
     /\ call'.op = "get_free_surface_elevation"
     /\ results[call'.target].problem.forward_speed # 0) =>
        /\ results' = results
        /\ timer' = timer
        /\ nsolve' = nsolve

\* C13: get_free_surface_elevation on a result with forward speed always
\* raises the not-implemented error, with keep_details true or false, with or
\* without sources and for any free surface, before the engine is called or
\* anything computed: the result and its fs_elevation mapping, and the
\* ledger, are as they were; without forward speed it never raises it.
C13_ForwardSpeedRaises == []C13_State /\ [][C13_Step]_vars

\* C13 witness: the error raised on a result that has its sources, with
\* keep_details true
C13_Witness ==
    /\ pc = "returned" /\ call.op = "get_free_surface_elevation"
    /\ outcome = FsForwardSpeedError
    /\ call.keep_details
    /\ results[call.target].sources # Null
    /\ results[call.target].fs_elevation = << >>

\* the number of entries of the first g lists of seqs
RECURSIVE LenUpTo(_, _)
LenUpTo(seqs, g) == IF g = 0 THEN 0 ELSE Len(seqs[g]) + LenUpTo(seqs, g - 1)

\* what a worker may call: the resolution of the problems of its group, and
\* neither a diagnostic check, nor a progress bar, nor a dispatch of groups
WorkerCalls ==
    { "worker", "solve", "build_matrices", "linear_solver", "green_function.evaluate",
      "integrate_pressure" }

ChecksRun(name) == { i \in 1..Len(trace) : trace[i].ev = name }

\* C15: a solve_all called with diagnostics runs each of the two checks
\* exactly once, over the whole batch, before any problem is solved and before
\* the groups are made, and neither the calls of solve nor the workers run
\* them again; called without diagnostics it runs none; a solve called with
\* diagnostics runs each once over the list of its one problem, before
\* anything else, and none without.
C15_DiagnosticsOnce ==
    (pc \in { "parallel", "returned" } /\ call.op \in { "solve", "solve_all" }) =>
        LET mesh == ChecksRun("_check_wavelength_and_mesh_resolution")
            irregular == ChecksRun("_check_wavelength_and_irregular_frequencies")
            start == IF call.op = "solve" THEN 1 ELSE 0
        IN  IF call.check
            THEN /\ mesh = { start + 1 }
                 /\ irregular = { start + 2 }
                 /\ trace[start + 1].n = Len(call.problems)
                 /\ trace[start + 2].n = Len(call.problems)
                 /\ \A i \in 1..start : trace[i] = Ev("solve", 0)
            ELSE mesh = {} /\ irregular = {}

\* C15 witness: a batch of two groups resolved in parallel with diagnostics,
\* both workers finished and both problems solved
C15_Witness ==
    /\ SolveAllReturned
    /\ call.check
    /\ call.n_jobs # 1
    /\ Len(call.problems) = 2
    /\ Cardinality({ i \in 1..Len(trace) : trace[i].ev = "worker" }) = 2
    /\ Cardinality({ i \in 1..Len(trace) : trace[i].ev = "solve" }) = 2
    /\ trace[1] = Ev("_check_wavelength_and_mesh_resolution", 2)

\* the warnings of the log that the check named emitted
WarningsOf(check) == SelectSeq(log, LAMBDA w : w.check = check)

\* C16 as stated: the irregular-frequency check with a risky problem emits
\* one warning, which recommends setting a lid if no body of the batch has a
\* lid and moving the lid if some body of the batch has one; without a risky
\* problem it emits none.
C16_LidRecommendation ==
    (pc = "returned" /\ call.op \in { "solve", "solve_all" } /\ call.check) =>
        LET ps == call.problems
            emitted == WarningsOf("irregular frequencies")
        IN  IF \E i \in 1..Len(ps) : IrregularRisky(ps[i])
            THEN /\ Len(emitted) = 1
                 /\ emitted[1].recommendation =
                        (IF \A i \in 1..Len(ps) : ~ps[i].body.lid_mesh THEN SetLid ELSE MoveLid)
            ELSE emitted = << >>

\* the warning w tells the problem pb with the attribute pb was given with
OwnAttribute(w, pb) ==
    /\ w.freq_type = pb.provided_freq_type
    /\ w.from <= FreqAttribute(pb, pb.provided_freq_type)
    /\ FreqAttribute(pb, pb.provided_freq_type) <= w.to

\* C17 as stated: each warning of the two checks reports every risky problem
\* of its check with the frequency attribute that problem was given with,
\* also when several risky problems make one range.
C17_OwnFrequencyAttribute ==
    (pc = "returned" /\ call.op \in { "solve", "solve_all" } /\ call.check) =>
        LET ps == call.problems
        IN  /\ \A i \in 1..Len(ps) : MeshRisky(ps[i]) =>
                  /\ Len(WarningsOf("mesh resolution")) = 1
                  /\ OwnAttribute(WarningsOf("mesh resolution")[1], ps[i])
            /\ \A i \in 1..Len(ps) : IrregularRisky(ps[i]) =>
                  /\ Len(WarningsOf("irregular frequencies")) = 1
                  /\ OwnAttribute(WarningsOf("irregular frequencies")[1], ps[i])

C18_State ==
    /\ method \in { S_direct, S_indirect }
    /\ call.op = "__init__" =>
          /\ call.method[1] \in { S_direct, S_indirect, S_Direct }
          /\ method = (IF call.method[1] = S_indirect THEN S_indirect ELSE S_direct)
    /\ (pc = "returned" /\ call.op = "solve" /\ outcome = "returned") =>
          LET used == IF call.method = None THEN method ELSE call.method[1]
          IN  /\ used = S_direct => UsedDirect /\ ~UsedIndirect
              /\ used = S_indirect => UsedIndirect /\ ~UsedDirect

C18_Step ==
    /\ method' = method
    /\ engine' = engine
    /\ green_function' = green_function

\* C18: the method of a solver is "direct" or "indirect", the lower-cased
\* argument of the constructor, which accepts no other string; no call of
\* solve or solve_all, with or without a method argument, changes the
\* method, the engine or the Green function, so a solve without method
\* argument uses the method of the constructor and a solve with one uses the
\* argument for that call.
C18_ConfigurationFixed == []C18_State /\ [][C18_Step]_vars

\* C18 witness: on a solver built with the direct method and an injected
\* Green function, the last solve the bound allows, called without method
\* argument after the other calls, uses the direct method
C18_Witness ==
    /\ pc = "returned" /\ call.op = "solve"
    /\ call.method = None
    /\ outcome = "returned"
    /\ nsolve = MaxCalls
    /\ method = S_direct
    /\ green_function # Delhommeau
    /\ UsedDirect

====
